---- MODULE Spec2Model ----
(***************************************************************************)
(* Model of system-utility/system_monitor.py: the SystemHealthMonitor      *)
(* check / diff / report cycle, its two files (machine_id.txt and          *)
(* last_state.json), the main thread and the daemon thread started by      *)
(* start_monitoring.                                                       *)
(***************************************************************************)
EXTENDS Integers, Sequences, FiniteSets, TLC

VARIABLES
    host_os,          \* what platform.system() returns on this host
    machine_id_file,  \* content of CONFIG["machine_id_file"]
    last_state_file,  \* content of CONFIG["last_state_file"]
    machine_id,       \* self.machine_id
    last_state,       \* self.last_state
    os_type,          \* self.os_type
    current_state,    \* local of run_periodic_check
    pc,               \* position of the thread that runs the cycles
    thread,           \* which thread that is: "main" or "daemon"
    exit_code,        \* argument of sys.exit, -1 while the process has not exited
    posts,            \* requests.post calls made in the cycle in progress
    payload,          \* json= argument of the last requests.post of the cycle
    response,         \* what requests.post did in the cycle (kept if ~watched)
    reported,         \* what report_to_server returned in the cycle
    pre_last,         \* self.last_state when the cycle began
    pre_file,         \* last-state file when the cycle began
    watched,          \* which history is kept: FALSE the response of the cycle,
                      \* TRUE what the collector holds (acked, write_lost)
    acked,            \* checks of the last payload answered with 200 (if watched)
    write_lost,       \* the write after that 200 failed or was cut short
    uuid_count,       \* distinct uuid4 values that have reached the identity file
    pre_id_file,      \* identity file when _get_machine_id was last called
    deleted_id,       \* identifier held by the identity file last deleted
    ended,            \* how the thread running the cycles ended, and where
    running_cycles,   \* run_periodic_check calls in progress, over all threads
    run_acked,        \* checks of the last payload answered with 200 in this
                      \* process (if watched)
    ack_pairs,        \* the payloads answered with 200 in this process, each
                      \* against the one before it: "none" yet to compare,
                      \* "distinct" checks every time, or "repeated" once
    probe_os,         \* self.os_type when check_sleep_settings is called on its own
    probe_q,          \* what the sleep query does on that call
    probe_result,     \* its result
    hsc_current,      \* argument of has_state_changed when called on its own
    hsc_last,         \* self.last_state of that call
    hsc_result        \* its result

vars == <<host_os, machine_id_file, last_state_file, machine_id, last_state,
          os_type, current_state, pc, thread, exit_code, posts, payload,
          response, reported, pre_last, pre_file, watched, acked,
          write_lost, uuid_count, pre_id_file, deleted_id, ended,
          running_cycles, run_acked, ack_pairs, probe_os, probe_q,
          probe_result, hsc_current, hsc_last, hsc_result>>

(***************************************************************************)
(* Bounds                                                                  *)
(***************************************************************************)
MaxTimestamp == 2   \* distinct wall-clock readings
MaxMachineId == 2   \* distinct uuid4 values

(***************************************************************************)
(* Values                                                                  *)
(***************************************************************************)
None == [kind |-> "none"]

NoFile      == [kind |-> "absent"]
Truncated   == [kind |-> "truncated"]    \* opened for writing, content incomplete
Garbage     == [kind |-> "garbage"]      \* text that is not JSON
Undecodable == [kind |-> "undecodable"]  \* bytes that are not text in the encoding
Unreadable  == [kind |-> "unreadable"]   \* exists, open(..., "r") is refused
NotRead     == [kind |-> "unread"]       \* no call has looked at the file

OsTypes == {"Windows", "Darwin", "Linux", "Other"}

Timestamps == 1..MaxTimestamp
\* str(uuid.uuid4()): the i-th distinct value
Uuid(i) == [kind |-> "uuid", n |-> i]
MachineIds == {Uuid(i) : i \in 1..MaxMachineId}
\* the empty string, where an identifier is expected
EmptyStr == [kind |-> "empty", n |-> 0]

HTTP_OK == 200
SleepLimitSeconds == 600
SleepLimitMinutes == 10

CheckNames == <<"disk_encryption", "os_updated", "antivirus_active",
                "sleep_settings_compliant">>

(***************************************************************************)
(* Python dicts: a sequence of <<key, value>> pairs in insertion order,    *)
(* keys unique.                                                            *)
(***************************************************************************)
DictKeys(d) == {d[i][1] : i \in 1..Len(d)}

DictHas(d, k) == \E i \in 1..Len(d) : d[i][1] = k

DictGet(d, k) == d[CHOOSE i \in 1..Len(d) : d[i][1] = k][2]

\* dict == dict compares the two sequences position by position
DictEqOrdered(a, b) == a = b

\* dict == dict: same size, and every key of a is in b with an equal value
DictEq(a, b) ==
    /\ Len(a) = Len(b)
    /\ \A i \in 1..Len(a) : DictHas(b, a[i][1]) /\ DictGet(b, a[i][1]) = a[i][2]

\* the two mappings have the same keys with the same values
SameChecks(a, b) == {a[i] : i \in 1..Len(a)} = {b[i] : i \in 1..Len(b)}

(***************************************************************************)
(* Results of a call: a value, or an exception leaving the function        *)
(***************************************************************************)
Ret(v) == [raised |-> FALSE, value |-> v]
Raise  == [raised |-> TRUE, value |-> FALSE]

(***************************************************************************)
(* Probes.  q is what the underlying query does on this call.              *)
(***************************************************************************)
\* subprocess.run raises, or returns with the marker text in stdout or not
CmdOutcomes == {[raises |-> TRUE, match |-> FALSE, rc |-> 0],
                [raises |-> FALSE, match |-> TRUE, rc |-> 0],
                [raises |-> FALSE, match |-> FALSE, rc |-> 0],
                [raises |-> FALSE, match |-> TRUE, rc |-> 1]}

check_disk_encryption(os, q) ==
    IF os \in {"Windows", "Darwin", "Linux"}
    THEN IF q.raises THEN Ret(FALSE) ELSE Ret(q.match)
    ELSE Ret(FALSE)

check_os_updates(os, q) ==
    IF os \in {"Windows", "Darwin"}
    THEN IF q.raises THEN Ret(FALSE) ELSE Ret(q.match)
    ELSE IF os = "Linux"
    THEN IF q.raises THEN Ret(FALSE) ELSE Ret(q.rc = 0 /\ q.match)
    ELSE Ret(FALSE)

\* proc.info['name'] of one listed process: a name, or "none" for None when
\* the name could not be read
ProcLists == {<<>>, <<"bash">>, <<"ClamAV-daemon">>, <<"none">>,
              <<"bash", "none">>, <<"bash", "ClamAV-daemon">>,
              <<"ClamAV-daemon", "none">>, <<"none", "ClamAV-daemon">>}

\* av in name.lower() for some av of av_processes
LowerContainsAv(name) == name \in {"ClamAV-daemon"}

\* the inner loops of the Linux branch over the process list procs
RECURSIVE ScanProcs(_)
ScanProcs(procs) ==
    IF procs = <<>> THEN Ret(FALSE)
    ELSE IF Head(procs) = "none" THEN Raise   \* None.lower(): AttributeError
    ELSE IF LowerContainsAv(Head(procs)) THEN Ret(TRUE)
    ELSE ScanProcs(Tail(procs))

\* the macOS answer given on every platform without a branch of its own
check_antivirus_default_true(os, q) ==
    IF os = "Windows"
    THEN IF q.cmd.raises THEN Ret(FALSE) ELSE Ret(q.cmd.match)
    ELSE IF os = "Linux"
    THEN IF q.iter_raises THEN Raise ELSE ScanProcs(q.procs)
    ELSE Ret(TRUE)

check_antivirus(os, q) ==
    IF os = "Windows"
    THEN IF q.cmd.raises THEN Ret(FALSE) ELSE Ret(q.cmd.match)
    ELSE IF os = "Darwin" THEN Ret(TRUE)
    ELSE IF os = "Linux"
    THEN IF q.iter_raises THEN Raise ELSE ScanProcs(q.procs)
    ELSE Ret(FALSE)

\* the numbers the sleep query is made to yield: around both limits, zero
\* and far above
SleepValues ==
    {0, SleepLimitMinutes - 1, SleepLimitMinutes, SleepLimitMinutes + 1,
     SleepLimitSeconds - 1, SleepLimitSeconds, SleepLimitSeconds + 1,
     SleepLimitSeconds * 60}

\* the sleep query: raises, yields nothing that parses, or yields n as the
\* first number that parses (int(x, 16) on Windows, int(x) elsewhere); tool
\* is whether /usr/bin/gsettings exists
SleepOutcomes ==
    {[raises |-> r, parsed |-> FALSE, n |-> 0, tool |-> t] :
        r \in BOOLEAN, t \in BOOLEAN}
    \cup {[raises |-> FALSE, parsed |-> TRUE, n |-> v, tool |-> t] :
            v \in SleepValues, t \in BOOLEAN}

\* the limit excluded
check_sleep_settings_strict(os, q) ==
    IF os = "Windows"
    THEN IF q.raises \/ ~q.parsed THEN Ret(FALSE)
         ELSE Ret(q.n < SleepLimitSeconds)
    ELSE IF os = "Darwin"
    THEN IF q.raises \/ ~q.parsed THEN Ret(FALSE)
         ELSE Ret(q.n < SleepLimitMinutes)
    ELSE IF os = "Linux"
    THEN IF ~q.tool \/ q.raises \/ ~q.parsed THEN Ret(FALSE)
         ELSE Ret(q.n < SleepLimitSeconds)
    ELSE Ret(FALSE)

check_sleep_settings(os, q) ==
    IF os = "Windows"
    THEN IF q.raises \/ ~q.parsed THEN Ret(FALSE)
         ELSE Ret(q.n <= SleepLimitSeconds)
    ELSE IF os = "Darwin"
    THEN IF q.raises \/ ~q.parsed THEN Ret(FALSE)
         ELSE Ret(q.n <= SleepLimitMinutes)
    ELSE IF os = "Linux"
    THEN IF ~q.tool \/ q.raises \/ ~q.parsed THEN Ret(FALSE)
         ELSE Ret(q.n <= SleepLimitSeconds)
    ELSE Ret(FALSE)

NoCmd == [raises |-> FALSE, match |-> FALSE, rc |-> 0]

AvOutcomes(os) ==
    IF os = "Windows"
    THEN {[cmd |-> c, iter_raises |-> FALSE, procs |-> <<>>] : c \in CmdOutcomes}
    ELSE IF os = "Linux"
    THEN {[cmd |-> NoCmd, iter_raises |-> TRUE, procs |-> <<>>]}
         \cup {[cmd |-> NoCmd, iter_raises |-> FALSE, procs |-> p] : p \in ProcLists}
    ELSE {[cmd |-> NoCmd, iter_raises |-> FALSE, procs |-> <<>>]}

\* one outcome per probe, for one call of check_all on platform os
ProbeOutcomes(os) ==
    IF os \in {"Windows", "Darwin", "Linux"}
    THEN [disk : CmdOutcomes, upd : CmdOutcomes, av : AvOutcomes(os),
          sleep : SleepOutcomes]
    ELSE [disk : {NoCmd}, upd : {NoCmd}, av : AvOutcomes(os),
          sleep : {[raises |-> FALSE, parsed |-> FALSE, n |-> 0, tool |-> FALSE]}]

(***************************************************************************)
(* check_all                                                               *)
(***************************************************************************)
check_all(mid, now, os, version, q) ==
    LET d == check_disk_encryption(os, q.disk)
        u == check_os_updates(os, q.upd)
        a == check_antivirus(os, q.av)
        s == check_sleep_settings(os, q.sleep)
    IN  IF d.raised \/ u.raised \/ a.raised \/ s.raised THEN Raise
        ELSE Ret([kind |-> "state",
                  machine_id |-> mid,
                  timestamp |-> now,
                  os_type |-> os,
                  os_version |-> version,
                  checks |-> <<<<CheckNames[1], d.value>>,
                               <<CheckNames[2], u.value>>,
                               <<CheckNames[3], a.value>>,
                               <<CheckNames[4], s.value>>>>])

\* what check_all returns on platform os, over every outcome of the queries;
\* the identifier, the clock and the version are filled in by the caller
CheckAllResults ==
    [os \in OsTypes |->
        {check_all(None, 0, os, "", q) : q \in ProbeOutcomes(os)}]

(***************************************************************************)
(* Python values that json.load can return besides a snapshot: None (the   *)
(* record None), a dict [kind |-> "dict", items |-> pairs] whose values    *)
(* are strings, a non-empty list.                                          *)
(***************************************************************************)
PyStr(v)   == [kind |-> "str", v |-> v]
PyDict(m)  == [kind |-> "dict", items |-> m]
PyList     == [kind |-> "list"]
PyBool(b)  == [kind |-> "bool", v |-> b]

\* not v
Falsy(v) == v = None \/ (v.kind = "dict" /\ v.items = <<>>)

(***************************************************************************)
(* has_state_changed                                                       *)
(***************************************************************************)
\* without the early return for a missing last state
has_state_changed_no_first_run(current, last) ==
    IF Falsy(last) THEN Ret(FALSE)
    ELSE Ret(~DictEq(current.checks, last.checks))

\* comparing the whole snapshots instead of their checks
has_state_changed_whole(current, last) ==
    IF Falsy(last) THEN Ret(TRUE) ELSE Ret(current # last)

\* every cycle is taken as a change
has_state_changed_always(current, last) == Ret(TRUE)

has_state_changed(current, last) ==
    IF Falsy(last) THEN Ret(TRUE)
    ELSE IF last.kind = "state"
    THEN Ret(~DictEq(current.checks, last.checks))
    ELSE IF last.kind = "list" THEN Raise              \* TypeError
    ELSE IF ~DictHas(last.items, "checks") THEN Raise  \* KeyError
    ELSE LET c == DictGet(last.items, "checks")
         IN  Ret(IF c.kind = "dict" THEN ~DictEq(current.checks, c.items)
                 ELSE TRUE)

(***************************************************************************)
(* report_to_server: resp is what requests.post does on this call          *)
(***************************************************************************)
HttpOutcomes ==
    {[raises |-> TRUE, status |-> 0]}
    \cup {[raises |-> FALSE, status |-> s] : s \in {200, 201, 404, 503}}

\* a call's result with the number of requests.post calls it made
Posted(r, n) == [raised |-> r.raised, value |-> r.value, posts |-> n]

\* a second attempt after a failed one
report_to_server_retrying(resp) ==
    IF resp.raises THEN Posted(Ret(FALSE), 2)
    ELSE Posted(Ret(resp.status = HTTP_OK), IF resp.status = HTTP_OK THEN 1 ELSE 2)

\* no try/except around the POST
report_to_server_unguarded(resp) ==
    IF resp.raises THEN Posted(Raise, 1)
    ELSE Posted(Ret(resp.status = HTTP_OK), 1)

\* every answered request counts as delivered
report_to_server_any_status(resp) ==
    IF resp.raises THEN Posted(Ret(FALSE), 1) ELSE Posted(Ret(TRUE), 1)

report_to_server(resp) ==
    IF resp.raises THEN Posted(Ret(FALSE), 1)
    ELSE Posted(Ret(resp.status = HTTP_OK), 1)

(***************************************************************************)
(* JSON documents: a tree of tagged values, an object's members in the     *)
(* order they are written                                                  *)
(***************************************************************************)
JStr(v)  == [t |-> "string", v |-> v]
JBool(b) == [t |-> IF b THEN "true" ELSE "false"]
JObj(m)  == [t |-> "object", members |-> m]
JArray   == [t |-> "array"]
JNull    == [t |-> "null"]

SnapshotKeys == {"machine_id", "timestamp", "os_type", "os_version", "checks"}

\* bools written as the strings str() gives
json_dump_str_bools(state) ==
    [kind |-> "json",
     doc |-> JObj(<<<<"machine_id", JStr(state.machine_id)>>,
                    <<"timestamp", JStr(state.timestamp)>>,
                    <<"os_type", JStr(state.os_type)>>,
                    <<"os_version", JStr(state.os_version)>>,
                    <<"checks",
                      JObj([i \in 1..Len(state.checks) |->
                              <<state.checks[i][1], JStr(state.checks[i][2])>>])>>>>)]

\* json.dump(state, f, indent=2) of a snapshot, completed: the file it leaves
json_dump(state) ==
    [kind |-> "json",
     doc |-> JObj(<<<<"machine_id", JStr(state.machine_id)>>,
                    <<"timestamp", JStr(state.timestamp)>>,
                    <<"os_type", JStr(state.os_type)>>,
                    <<"os_version", JStr(state.os_version)>>,
                    <<"checks",
                      JObj([i \in 1..Len(state.checks) |->
                              <<state.checks[i][1], JBool(state.checks[i][2])>>])>>>>)]

\* the document is an object with the members of a snapshot: four strings
\* and a checks object of booleans
JsonIsSnapshot(j) ==
    /\ j.t = "object"
    /\ Len(j.members) = 5
    /\ DictKeys(j.members) = SnapshotKeys
    /\ \A k \in SnapshotKeys \ {"checks"} : DictGet(j.members, k).t = "string"
    /\ DictGet(j.members, "checks").t = "object"
    /\ LET c == DictGet(j.members, "checks").members
       IN  \A i \in 1..Len(c) : c[i][2].t \in {"true", "false"}

\* a string or boolean member
PyScalar(j) == IF j.t = "string" THEN PyStr(j.v) ELSE PyBool(j.t = "true")

\* a member of a dict that is not a snapshot
PyMember(j) ==
    IF j.t = "object"
    THEN PyDict([i \in 1..Len(j.members) |->
                    <<j.members[i][1], PyScalar(j.members[i][2])>>])
    ELSE PyScalar(j)

\* json.load of a parsed document
json_load(j) ==
    IF JsonIsSnapshot(j)
    THEN LET c == DictGet(j.members, "checks").members
         IN  [kind |-> "state",
              machine_id |-> DictGet(j.members, "machine_id").v,
              timestamp |-> DictGet(j.members, "timestamp").v,
              os_type |-> DictGet(j.members, "os_type").v,
              os_version |-> DictGet(j.members, "os_version").v,
              checks |-> [i \in 1..Len(c) |-> <<c[i][1], c[i][2].t = "true">>]]
    ELSE IF j.t = "null" THEN None
    ELSE IF j.t = "array" THEN PyList
    ELSE PyDict([i \in 1..Len(j.members) |->
                    <<j.members[i][1], PyMember(j.members[i][2])>>])

(***************************************************************************)
(* The last-state file                                                     *)
(***************************************************************************)
\* contents of the file that are not a persisted snapshot
CorruptFiles ==
    {Garbage, Truncated, Undecodable, Unreadable,
     [kind |-> "json", doc |-> JNull],
     [kind |-> "json", doc |-> JArray],
     [kind |-> "json", doc |-> JObj(<<>>)],
     [kind |-> "json", doc |-> JObj(<<<<"machine_id", JStr(Uuid(1))>>>>)],
     [kind |-> "json", doc |-> JObj(<<<<"checks", JStr("none")>>>>)]}

\* the file is never read: every process starts from no previous state
_load_last_state_fresh(file) == Ret(None)

\* only JSONDecodeError is caught
_load_last_state(file) ==
    IF file = NoFile THEN Ret(None)
    ELSE IF file.kind \in {"unreadable", "undecodable"} THEN Raise
    ELSE IF file.kind \in {"garbage", "truncated"} THEN Ret(None)
    ELSE Ret(json_load(file.doc))

\* open(..., "w") fails; or it succeeds and the write does or does not
WriteOutcomes == {"ok", "open_fails", "write_fails"}

\* the write reports success and leaves the file as it was
_save_state_dropped(file, state, w) == file

\* what _save_state leaves in the file
_save_state(file, state, w) ==
    IF w = "ok" THEN json_dump(state)
    ELSE IF w = "open_fails" THEN file
    ELSE Truncated

(***************************************************************************)
(* The process                                                             *)
(***************************************************************************)
OsVersions == {"v1"}

CycleVars == <<current_state, posts, payload, response, reported, pre_last,
               pre_file>>
HscVars   == <<hsc_current, hsc_last, hsc_result>>
FileVars  == <<machine_id_file, last_state_file>>
IdVars    == <<uuid_count, pre_id_file, deleted_id>>
AckVars   == <<run_acked, ack_pairs>>
ProbeVars == <<probe_os, probe_q, probe_result>>
CallVars  == <<hsc_current, hsc_last, hsc_result, probe_os, probe_q, probe_result>>

Running == pc \notin {"boot", "exited"}

\* the positions inside run_periodic_check
CyclePcs == {"checking", "diffing", "reporting", "committing", "skipping"}

NotEnded      == [by |-> "none", at |-> "none"]
Exception(at) == [by |-> "exception", at |-> at]
Stopped(at)   == [by |-> "interrupt", at |-> at]

\* a fresh install, before the first launch
Fresh ==
    /\ host_os \in OsTypes
    /\ machine_id_file = NoFile
    /\ last_state_file = NoFile
    /\ machine_id = None
    /\ last_state = None
    /\ os_type = "unset"
    /\ current_state = None
    /\ pc = "boot"
    /\ thread = "main"
    /\ exit_code = -1
    /\ posts = 0
    /\ payload = None
    /\ response = None
    /\ reported = "none"
    /\ pre_last = None
    /\ pre_file = NoFile
    /\ acked = None
    /\ write_lost = FALSE
    /\ uuid_count = 0
    /\ pre_id_file = NotRead
    /\ deleted_id = None
    /\ ended = NotEnded
    /\ running_cycles = 0
    /\ run_acked = None
    /\ ack_pairs = "none"

\* has_state_changed is not called on its own
NoHscCall ==
    /\ hsc_current = None
    /\ hsc_last = None
    /\ hsc_result = "unused"

\* check_sleep_settings is not called on its own
NoProbeCall ==
    /\ probe_os = "unset"
    /\ probe_q = None
    /\ probe_result = None

\* no function-level call is set up
NoCall == NoHscCall /\ NoProbeCall

Init == Fresh /\ watched = FALSE /\ NoCall

\* the same install, keeping the collector's side instead of the responses
InitWatched == Fresh /\ watched = TRUE /\ NoCall

\* str(uuid.uuid4()): a value no identity file has held
FreshUuid == Uuid(uuid_count + 1)

\* an existing file is never read: a new identifier on every call
_get_machine_id_regenerating(file, fresh, w) ==
    [raised |-> FALSE, id |-> fresh, file |-> [kind |-> "text", text |-> fresh]]

\* a failed write is swallowed and the identifier used all the same
_get_machine_id_unsaved(file, fresh, w) ==
    IF file # NoFile THEN [raised |-> FALSE, id |-> file.text, file |-> file]
    ELSE IF w = "ok"
    THEN [raised |-> FALSE, id |-> fresh, file |-> [kind |-> "text", text |-> fresh]]
    ELSE [raised |-> FALSE, id |-> fresh, file |-> NoFile]

\* _get_machine_id: whether it raises, the value returned and the file it
\* leaves; w is what open(..., "w") and f.write do if they are reached
_get_machine_id(file, fresh, w) ==
    IF file # NoFile THEN [raised |-> FALSE, id |-> file.text, file |-> file]
    ELSE IF w = "ok"
    THEN [raised |-> FALSE, id |-> fresh, file |-> [kind |-> "text", text |-> fresh]]
    ELSE IF w = "open_fails"
    THEN [raised |-> TRUE, id |-> None, file |-> NoFile]
    ELSE [raised |-> TRUE, id |-> None, file |-> [kind |-> "text", text |-> EmptyStr]]

\* the locals of a cycle that has not posted yet; last and file are what the
\* cycle started from
BeginCycle(last, file) ==
    /\ current_state' = None
    /\ posts' = 0
    /\ payload' = None
    /\ response' = None
    /\ reported' = "none"
    /\ pre_last' = last
    /\ pre_file' = file

\* the process ends: its memory is gone
ProcessExit(code) ==
    /\ pc' = "exited"
    /\ exit_code' = code
    /\ machine_id' = None
    /\ last_state' = None
    /\ os_type' = "unset"
    /\ thread' = "main"
    /\ running_cycles' = 0
    /\ BeginCycle(None, NoFile)

\* an exception leaves run_periodic_check: on the main thread main() catches
\* it and calls sys.exit(1); on the daemon thread run_daemon ends with it
\* and the main thread keeps looping on time.sleep(1)
Propagate(last, n, sent, resp, rep) ==
    /\ ended' = Exception(pc)
    /\ IF thread = "main" THEN ProcessExit(1)
       ELSE /\ pc' = "dead"
            /\ last_state' = last
            /\ posts' = n
            /\ payload' = sent
            /\ response' = resp
            /\ reported' = rep
            /\ running_cycles' = running_cycles - 1
            /\ UNCHANGED <<machine_id, os_type, thread, exit_code, current_state,
                           pre_last, pre_file>>

\* main(): SystemHealthMonitor(), then start_monitoring up to the first cycle
Startup ==
    /\ pc = "boot"
    /\ machine_id_file = NoFile => uuid_count < MaxMachineId
    /\ \E w \in WriteOutcomes :
          LET g == _get_machine_id(machine_id_file, FreshUuid, w)
              l == _load_last_state(last_state_file)
          IN  /\ machine_id_file' = g.file
              /\ uuid_count' = IF g.file # machine_id_file /\ g.file # NoFile
                                  /\ g.file.text # EmptyStr
                               THEN uuid_count + 1 ELSE uuid_count
              /\ IF g.raised
                 THEN /\ ProcessExit(1)
                      /\ ended' = Exception("_get_machine_id")
                      /\ pre_id_file' = NotRead
                 ELSE IF l.raised
                 THEN /\ ProcessExit(1)
                      /\ ended' = Exception("_load_last_state")
                      /\ pre_id_file' = NotRead
                 ELSE /\ machine_id' = g.id
                      /\ last_state' = l.value
                      /\ os_type' = host_os
                      /\ pc' = "checking"
                      /\ thread' = "main"
                      /\ running_cycles' = running_cycles + 1
                      /\ pre_id_file' = machine_id_file
                      /\ BeginCycle(l.value, last_state_file)
                      /\ UNCHANGED <<exit_code, ended>>
    /\ UNCHANGED <<host_os, watched, last_state_file, acked, write_lost, deleted_id>>
    /\ UNCHANGED AckVars
    /\ UNCHANGED CallVars

\* current_state = self.check_all()
CheckAll ==
    /\ pc = "checking"
    /\ \E now \in Timestamps, version \in OsVersions :
          \E r \in CheckAllResults[os_type] :
              IF r.raised
              THEN Propagate(last_state, posts, payload, response, reported)
              ELSE /\ current_state' = [r.value EXCEPT !.machine_id = machine_id,
                                                       !.timestamp = now,
                                                       !.os_version = version]
                   /\ pc' = "diffing"
                   /\ UNCHANGED <<machine_id, last_state, os_type, thread,
                                  exit_code, posts, payload, response, reported,
                                  pre_last, pre_file, ended, running_cycles>>
    /\ pre_id_file' = NotRead
    /\ UNCHANGED <<host_os, watched, acked, write_lost, uuid_count, deleted_id>>
    /\ UNCHANGED FileVars
    /\ UNCHANGED AckVars
    /\ UNCHANGED CallVars

\* if self.has_state_changed(current_state)
Diff ==
    /\ pc = "diffing"
    /\ LET r == has_state_changed(current_state, last_state)
       IN  IF r.raised
           THEN Propagate(last_state, posts, payload, response, reported)
           ELSE /\ pc' = IF r.value THEN "reporting" ELSE "skipping"
                /\ UNCHANGED <<machine_id, last_state, os_type, thread, exit_code,
                               ended, running_cycles>>
                /\ UNCHANGED CycleVars
    /\ UNCHANGED <<host_os, watched, acked, write_lost>>
    /\ UNCHANGED FileVars
    /\ UNCHANGED IdVars
    /\ UNCHANGED AckVars
    /\ UNCHANGED CallVars

\* if self.report_to_server(current_state)
Report ==
    /\ pc = "reporting"
    /\ \E resp \in HttpOutcomes :
          LET r == report_to_server(resp)
              ok == ~resp.raises /\ resp.status = HTTP_OK
          IN  /\ acked' = IF ok /\ watched
                          THEN [kind |-> "checks", checks |-> current_state.checks]
                          ELSE acked
              /\ IF r.raised
                 THEN Propagate(last_state, posts + r.posts, current_state,
                                IF watched THEN None ELSE resp, "raised")
                 ELSE /\ posts' = posts + r.posts
                      /\ response' = IF watched THEN None ELSE resp
                      /\ payload' = current_state
                      /\ reported' = IF r.value THEN "true" ELSE "false"
                      /\ pc' = IF r.value THEN "committing" ELSE "done"
                      /\ running_cycles' = IF r.value THEN running_cycles
                                           ELSE running_cycles - 1
                      /\ UNCHANGED <<machine_id, last_state, os_type, thread,
                                     exit_code, current_state, pre_last, pre_file,
                                     ended>>
              /\ run_acked' = IF ok /\ watched
                              THEN [kind |-> "checks", checks |-> current_state.checks]
                              ELSE run_acked
              /\ ack_pairs' =
                    IF ~(ok /\ watched) \/ run_acked = None \/ ack_pairs = "repeated"
                    THEN ack_pairs
                    ELSE IF SameChecks(run_acked.checks, current_state.checks)
                    THEN "repeated" ELSE "distinct"
    /\ UNCHANGED <<host_os, watched, write_lost>>
    /\ UNCHANGED FileVars
    /\ UNCHANGED IdVars
    /\ UNCHANGED CallVars

\* self.last_state = current_state; self._save_state(current_state)
Commit ==
    /\ pc = "committing"
    /\ \E w \in WriteOutcomes :
          /\ last_state_file' = _save_state(last_state_file, current_state, w)
          /\ IF w = "ok"
             THEN /\ pc' = "done"
                  /\ last_state' = current_state
                  /\ write_lost' = FALSE
                  /\ running_cycles' = running_cycles - 1
                  /\ UNCHANGED <<machine_id, os_type, thread, exit_code, ended>>
                  /\ UNCHANGED CycleVars
             ELSE /\ Propagate(current_state, posts, payload, response, reported)
                  /\ write_lost' = watched
    /\ UNCHANGED <<host_os, watched, machine_id_file, acked>>
    /\ UNCHANGED IdVars
    /\ UNCHANGED AckVars
    /\ UNCHANGED CallVars

\* else: logger.info("No changes in system state")
Skip ==
    /\ pc = "skipping"
    /\ pc' = "done"
    /\ running_cycles' = running_cycles - 1
    /\ UNCHANGED <<host_os, watched, machine_id, last_state, os_type, thread, exit_code,
                   acked, write_lost, ended>>
    /\ UNCHANGED CycleVars
    /\ UNCHANGED FileVars
    /\ UNCHANGED IdVars
    /\ UNCHANGED AckVars
    /\ UNCHANGED CallVars

\* the daemon thread is started as soon as the monitor is constructed, while
\* the initial cycle is still in progress on the main thread
StartDaemonDuringFirstCycle ==
    /\ pc \in CyclePcs
    /\ thread = "main"
    /\ thread' = "daemon"
    /\ pc' = "sleeping"
    /\ BeginCycle(None, NoFile)
    /\ UNCHANGED <<host_os, watched, machine_id, last_state, os_type, exit_code, acked,
                   write_lost, ended, running_cycles>>
    /\ UNCHANGED FileVars
    /\ UNCHANGED IdVars
    /\ UNCHANGED AckVars
    /\ UNCHANGED CallVars

\* the initial cycle returned: start_monitoring starts the daemon thread,
\* which sleeps first; the main thread loops on time.sleep(1)
StartDaemon ==
    /\ pc = "done"
    /\ thread = "main"
    /\ thread' = "daemon"
    /\ pc' = "sleeping"
    /\ BeginCycle(None, NoFile)
    /\ UNCHANGED <<host_os, watched, machine_id, last_state, os_type, exit_code, acked,
                   write_lost, ended, running_cycles>>
    /\ UNCHANGED FileVars
    /\ UNCHANGED IdVars
    /\ UNCHANGED AckVars
    /\ UNCHANGED CallVars

\* run_daemon: a cycle returned, back to time.sleep(interval_seconds)
LoopBack ==
    /\ pc = "done"
    /\ thread = "daemon"
    /\ pc' = "sleeping"
    /\ BeginCycle(None, NoFile)
    /\ UNCHANGED <<host_os, watched, machine_id, last_state, os_type, thread, exit_code,
                   acked, write_lost, ended, running_cycles>>
    /\ UNCHANGED FileVars
    /\ UNCHANGED IdVars
    /\ UNCHANGED AckVars
    /\ UNCHANGED CallVars

\* a timer that fires every interval, whether or not the cycle before it
\* has returned
IntervalElapsedDuringCycle ==
    /\ pc \in CyclePcs \cup {"sleeping"}
    /\ thread = "daemon"
    /\ pc' = "checking"
    /\ running_cycles' = running_cycles + 1
    /\ BeginCycle(last_state, last_state_file)
    /\ UNCHANGED <<host_os, watched, machine_id, last_state, os_type, thread, exit_code,
                   acked, write_lost, ended>>
    /\ UNCHANGED FileVars
    /\ UNCHANGED IdVars
    /\ UNCHANGED AckVars
    /\ UNCHANGED CallVars

\* run_daemon: time.sleep(interval_seconds) returns, the next cycle begins
IntervalElapsed ==
    /\ pc = "sleeping"
    /\ pc' = "checking"
    /\ running_cycles' = running_cycles + 1
    /\ BeginCycle(last_state, last_state_file)
    /\ UNCHANGED <<host_os, watched, machine_id, last_state, os_type, thread, exit_code,
                   acked, write_lost, ended>>
    /\ UNCHANGED FileVars
    /\ UNCHANGED IdVars
    /\ UNCHANGED AckVars
    /\ UNCHANGED CallVars

\* KeyboardInterrupt on the main thread: sys.exit(0); the daemon thread is
\* abandoned wherever it is.  A write in progress may be left incomplete.
Interrupt ==
    /\ Running
    /\ ProcessExit(0)
    /\ ended' = Stopped(pc)
    /\ \/ UNCHANGED last_state_file
       \/ pc = "committing" /\ last_state_file' = Truncated
    /\ write_lost' = IF pc = "committing" THEN watched ELSE write_lost
    /\ pre_id_file' = NotRead
    /\ UNCHANGED <<host_os, watched, machine_id_file, acked, uuid_count, deleted_id>>
    /\ UNCHANGED AckVars
    /\ UNCHANGED CallVars

\* the service manager launches the program again: a new process
Restart ==
    /\ pc = "exited"
    /\ pc' = "boot"
    /\ exit_code' = -1
    /\ ended' = NotEnded
    /\ run_acked' = None
    /\ ack_pairs' = "none"
    /\ UNCHANGED <<host_os, watched, machine_id, last_state, os_type, thread, acked,
                   write_lost, running_cycles>>
    /\ UNCHANGED CycleVars
    /\ UNCHANGED FileVars
    /\ UNCHANGED IdVars
    /\ UNCHANGED CallVars

SchedulerStep ==
    \/ Startup
    \/ CheckAll
    \/ Diff
    \/ Report
    \/ Commit
    \/ Skip
    \/ StartDaemon
    \/ LoopBack
    \/ IntervalElapsed

Next ==
    \/ SchedulerStep
    \/ Interrupt
    \/ Restart

Spec == Init /\ [][Next]_vars

SpecWatched == InitWatched /\ [][Next]_vars

\* a started thread keeps running and time.sleep returns
FairSpec == Spec /\ WF_vars(SchedulerStep)

(***************************************************************************)
(* The files under other hands: someone deletes or replaces them while the *)
(* process is not running (the last-state file also between two cycles).   *)
(***************************************************************************)
Untouched ==
    /\ UNCHANGED <<host_os, watched, machine_id, last_state, os_type, pc, thread,
                   exit_code, acked, write_lost, ended, running_cycles>>
    /\ UNCHANGED CycleVars
    /\ UNCHANGED AckVars
    /\ UNCHANGED CallVars

\* last_state.json is removed
DeleteLastState ==
    /\ pc \in {"sleeping", "exited"}
    /\ last_state_file # NoFile
    /\ last_state_file' = NoFile
    /\ Untouched
    /\ UNCHANGED machine_id_file
    /\ UNCHANGED IdVars

\* last_state.json is replaced by something that is not a snapshot
CorruptLastState ==
    /\ pc = "exited"
    /\ \E f \in CorruptFiles : last_state_file' = f
    /\ Untouched
    /\ UNCHANGED machine_id_file
    /\ UNCHANGED IdVars

\* machine_id.txt is removed
DeleteMachineId ==
    /\ pc = "exited"
    /\ machine_id_file # NoFile
    /\ uuid_count < MaxMachineId
    /\ machine_id_file' = NoFile
    /\ deleted_id' = machine_id_file.text
    /\ Untouched
    /\ UNCHANGED <<last_state_file, uuid_count, pre_id_file>>

NextFiles ==
    \/ Next
    \/ DeleteLastState
    \/ CorruptLastState

\* the last-state file under other hands
SpecFiles == Init /\ [][NextFiles]_vars

NextIdentity ==
    \/ Next
    \/ DeleteMachineId

\* the identity file under other hands
SpecIdentity == Init /\ [][NextIdentity]_vars

(***************************************************************************)
(* has_state_changed on its own: the arguments are drawn from snapshots    *)
(* whose checks differ in keys, key order and values, and whose other      *)
(* fields differ.                                                          *)
(***************************************************************************)
HscKeys == {CheckNames[1], CheckNames[2]}

HscDicts ==
    {<<>>}
    \cup {<<<<k, v>>>> : k \in HscKeys, v \in BOOLEAN}
    \cup {d \in {<<<<k1, v1>>, <<k2, v2>>>> :
                    k1 \in HscKeys, k2 \in HscKeys, v1 \in BOOLEAN, v2 \in BOOLEAN} :
            d[1][1] # d[2][1]}

HscSnapshot(mid, now, os, version, d) ==
    [kind |-> "state", machine_id |-> mid, timestamp |-> now, os_type |-> os,
     os_version |-> version, checks |-> d]

HscCurrents ==
    {HscSnapshot(mid, now, os, version, d) :
        mid \in MachineIds, now \in Timestamps, os \in {"Linux", "Windows"},
        version \in {"v1", "v2"}, d \in HscDicts}

HscLasts ==
    {None} \cup {HscSnapshot(Uuid(1), 1, "Linux", "v1", d) : d \in HscDicts}

HscInit ==
    /\ Fresh
    /\ host_os = "Linux"
    /\ watched = FALSE
    /\ hsc_current \in HscCurrents
    /\ hsc_last \in HscLasts
    /\ hsc_result = "unused"
    /\ NoProbeCall

\* self.last_state = hsc_last; self.has_state_changed(hsc_current)
CallHasStateChanged ==
    /\ hsc_result = "unused"
    /\ hsc_current # None
    /\ LET r == has_state_changed(hsc_current, hsc_last)
       IN  hsc_result' = IF r.raised THEN "raised"
                         ELSE IF r.value THEN "true" ELSE "false"
    /\ UNCHANGED <<host_os, watched, machine_id, last_state, os_type, pc, thread,
                   exit_code, acked, write_lost, ended, running_cycles,
                   hsc_current, hsc_last>>
    /\ UNCHANGED CycleVars
    /\ UNCHANGED FileVars
    /\ UNCHANGED IdVars
    /\ UNCHANGED AckVars
    /\ UNCHANGED ProbeVars

HscSpec == HscInit /\ [][CallHasStateChanged]_vars

(***************************************************************************)
(* check_sleep_settings on its own, on every platform and over every       *)
(* outcome of the sleep query                                              *)
(***************************************************************************)
SleepInit ==
    /\ Fresh
    /\ watched = FALSE
    /\ NoHscCall
    /\ probe_os \in OsTypes
    /\ host_os = probe_os
    /\ probe_q \in SleepOutcomes
    /\ probe_result = None

\* self.os_type = probe_os; self.check_sleep_settings()
CallCheckSleepSettings ==
    /\ probe_result = None
    /\ probe_q # None
    /\ probe_result' = check_sleep_settings(probe_os, probe_q)
    /\ UNCHANGED <<host_os, watched, machine_id, last_state, os_type, pc, thread,
                   exit_code, acked, write_lost, ended, running_cycles,
                   probe_os, probe_q>>
    /\ UNCHANGED CycleVars
    /\ UNCHANGED FileVars
    /\ UNCHANGED IdVars
    /\ UNCHANGED AckVars
    /\ UNCHANGED HscVars

SleepSpec == SleepInit /\ [][CallCheckSleepSettings]_vars

(***************************************************************************)
(* Properties                                                              *)
(***************************************************************************)
\* the two mappings differ in their key set or in the value of some key
ChecksDiffer(a, b) ==
    \/ DictKeys(a) # DictKeys(b)
    \/ \E i \in 1..Len(a), j \in 1..Len(b) : a[i][1] = b[j][1] /\ a[i][2] # b[j][2]

ResponseOk(resp) == resp # None /\ ~resp.raises /\ resp.status = 200
ResponseFailed(resp) == resp # None /\ ~ResponseOk(resp)

\* the cycle in progress has diffed a snapshot that differs from what it
\* started from
CycleChanged ==
    /\ current_state # None
    /\ pc # "diffing"
    /\ pre_last = None \/ ChecksDiffer(current_state.checks, pre_last.checks)

\* C1: a cycle whose POST was not answered with 200 ends with last_state and
\* the last-state file as they were when the cycle began
C1_FailedReportKeepsState ==
    (pc = "done" /\ ResponseFailed(response))
        => /\ last_state = pre_last
           /\ last_state_file = pre_file
           /\ _load_last_state(last_state_file) = _load_last_state(pre_file)

C1_Witness ==
    /\ pc = "done"
    /\ ResponseFailed(response)
    /\ response.status = 503
    /\ pre_file.kind = "json"
    /\ last_state_file = pre_file

\* what the collector acknowledged last is what the file holds
InSync ==
    IF acked = None THEN last_state_file = NoFile
    ELSE /\ last_state_file.kind = "json"
         /\ SameChecks(json_load(last_state_file.doc).checks, acked.checks)

C3_ChangedIffChecksDiffer ==
    (hsc_result # "unused" /\ hsc_last # None)
        => (hsc_result = "true"
              <=> ChecksDiffer(hsc_current.checks, hsc_last.checks))

\* same keys and values in another order, other fields different: unchanged
C3_Witness ==
    /\ hsc_result = "false"
    /\ hsc_last # None
    /\ Len(hsc_current.checks) = 2
    /\ hsc_current.checks # hsc_last.checks
    /\ hsc_current.timestamp # hsc_last.timestamp
    /\ hsc_current.os_type # hsc_last.os_type
    /\ hsc_current.os_version # hsc_last.os_version

\* C4: a cycle that began with no previous state never skips: it reports,
\* whatever the checks are
C4_FirstRunReports ==
    (current_state # None /\ pc # "diffing" /\ pre_last = None)
        => /\ pc \in {"reporting", "committing", "done", "dead"}
           /\ pc # "reporting" => posts = 1

C4_Witness ==
    /\ pc = "done"
    /\ pre_last = None
    /\ pre_file = NoFile
    /\ thread = "main"
    /\ posts = 1
    /\ \A i \in 1..Len(current_state.checks) : ~current_state.checks[i][2]

\* C5: a cycle whose checks equal those of the state it began with skips: no
\* POST, last_state and the file untouched
C5_UnchangedSkips ==
    (/\ current_state # None
     /\ pc # "diffing"
     /\ pre_last # None
     /\ SameChecks(current_state.checks, pre_last.checks))
        => /\ pc \in {"skipping", "done"}
           /\ posts = 0
           /\ response = None
           /\ last_state = pre_last
           /\ last_state_file = pre_file

C5_Witness ==
    /\ pc = "done"
    /\ pre_last # None
    /\ posts = 0
    /\ SameChecks(current_state.checks, pre_last.checks)
    /\ current_state.timestamp # pre_last.timestamp

\* C6: a cycle that found a change has posted exactly once once it is past
\* the report, with its own snapshot; after a 200 and a completed write that
\* snapshot is last_state and the content of the file
C6_ReportsOnceWithOwnSnapshot ==
    (CycleChanged /\ pc \in {"committing", "done", "dead"})
        => /\ posts = 1
           /\ payload = current_state
           /\ (pc = "done" /\ ResponseOk(response))
                => (last_state = payload /\ last_state_file = json_dump(payload))

C6_Witness ==
    /\ CycleChanged
    /\ pc = "done"
    /\ ResponseOk(response)
    /\ pre_last # None
    /\ last_state_file = json_dump(payload)

InterruptedByUser == pc = "exited" /\ exit_code = 0

\* C7: after a cycle whose report failed, a next cycle comes to its diff and
\* so to the retry (unless the user stops the process first)
C7_RetryNextCycle ==
    (pc = "done" /\ ResponseFailed(response))
        ~> (pc \in {"reporting", "skipping"} \/ InterruptedByUser)

\* C8: no exception of a cycle ends run_daemon or the process
C8_CycleErrorsAbsorbed ==
    /\ pc # "dead"
    /\ ~(pc = "exited" /\ exit_code = 1 /\ ended.at \in CyclePcs)

\* C9: on the platform of the running process no probe raises, whatever the
\* underlying query does, and check_all returns a snapshot
C9_ProbesNeverRaise ==
    pc = "checking" =>
        \A q \in ProbeOutcomes(os_type) :
            /\ ~check_disk_encryption(os_type, q.disk).raised
            /\ ~check_os_updates(os_type, q.upd).raised
            /\ ~check_antivirus(os_type, q.av).raised
            /\ ~check_sleep_settings(os_type, q.sleep).raised
            /\ ~check_all(machine_id, 1, os_type, "v1", q).raised

\* C10: a call of report_to_server posts once and returns, true exactly on
\* status 200, false on any other status and on a transport error
C10_ReportTrueIffHttp200 ==
    response # None
        => /\ posts = 1
           /\ reported \in {"true", "false"}
           /\ reported = "true" <=> ResponseOk(response)

C10_Witness ==
    /\ pc = "done"
    /\ thread = "daemon"
    /\ response # None
    /\ response.raises
    /\ reported = "false"

\* C11: a cycle whose POST was answered with any status from 200 to 299 has
\* taken the report as delivered and committed its snapshot
C11_Any2xxCommits ==
    (pc = "done" /\ response # None /\ ~response.raises
                 /\ response.status \in 200..299)
        => /\ reported = "true"
           /\ last_state = payload
           /\ last_state_file = json_dump(payload)

\* C12: a process launched on a last-state file that is not a persisted
\* snapshot starts up, no exception leaves the load or the comparison, and
\* its first cycle reports
C12_CorruptFileIsAbsent ==
    /\ ended # Exception("_load_last_state")
    /\ ended # Exception("diffing")
    /\ (thread = "main" /\ pc \in {"reporting", "skipping", "committing", "done"}
                        /\ pre_file \in CorruptFiles)
          => /\ pc # "skipping"
             /\ pc \in {"committing", "done"} => posts = 1

\* C13: a failed write of the last-state file after a delivered report ends
\* no thread, and the cycle ends with last_state and the file as they were
\* when it began
C13_WriteFailureAbsorbed ==
    /\ ended # Exception("committing")
    /\ (reported = "true" /\ pc \in {"done", "dead"}
                          /\ last_state_file # json_dump(payload))
          => /\ pc = "done"
             /\ last_state = pre_last
             /\ last_state_file = pre_file

\* C14: _get_machine_id called on an existing identity file returns what the
\* file holds and leaves the file as it is; called after the file was
\* deleted it returns an identifier that differs from the deleted one and
\* leaves it in the file
C14_IdentityStable ==
    /\ (pre_id_file # NotRead /\ pre_id_file # NoFile)
          => /\ machine_id = pre_id_file.text
             /\ machine_id_file = pre_id_file
    /\ pre_id_file = NoFile
          => /\ machine_id \in MachineIds
             /\ machine_id # deleted_id
             /\ machine_id_file = [kind |-> "text", text |-> machine_id]

\* deleted, regenerated, and then reused by the next process
C14_Witness ==
    /\ pc = "checking"
    /\ deleted_id = Uuid(1)
    /\ pre_id_file = [kind |-> "text", text |-> Uuid(2)]
    /\ machine_id = Uuid(2)

\* C15: no process runs a cycle on an identifier that is not in the identity
\* file; when the file is absent and cannot be written the process exits
\* with status 1 before any probe, POST or write of the last-state file
C15_IdentityWriteFailureIsFatal ==
    /\ Running => /\ machine_id_file # NoFile
                  /\ machine_id_file.text = machine_id
    /\ ended = Exception("_get_machine_id")
          => /\ pc = "exited"
             /\ exit_code = 1
             /\ posts = 0
             /\ current_state = None
             /\ last_state_file = NoFile

C15_Witness ==
    /\ ended = Exception("_get_machine_id")
    /\ pc = "exited"
    /\ machine_id_file = NoFile

\* C16: a process goes from its construction straight into the first cycle;
\* a wait begins only when a cycle has returned; and every cycle but the
\* first, which runs on the main thread, begins when a wait has ended
C16_FirstCycleBeforeSleep ==
    [][/\ (pc = "boot" /\ pc' # "boot") => pc' \in {"checking", "exited"}
       /\ (pc' = "sleeping" /\ pc # "sleeping") => pc = "done"
       /\ (pc' = "checking" /\ pc # "checking")
             => \/ pc = "boot" /\ thread' = "main"
                \/ pc = "sleeping" /\ thread' = "daemon"]_vars

C16_Witness ==
    /\ pc = "checking"
    /\ thread = "daemon"
    /\ pre_last # None

\* C17: at most one run_periodic_check is in progress, the one the thread
\* running the cycles is in; none is in progress during the wait, nor when
\* the daemon thread is started
C17_CyclesNeverOverlap ==
    /\ running_cycles = IF pc \in CyclePcs THEN 1 ELSE 0
    /\ pc = "sleeping" => (running_cycles = 0 /\ thread = "daemon")

C17_Witness ==
    /\ pc = "committing"
    /\ thread = "daemon"
    /\ running_cycles = 1

\* C18: a process stopped from the keyboard was not inside a cycle when it
\* ended: not between the report and the write, nor in the write
C18_StopWaitsForCycle ==
    ended.by = "interrupt" => ended.at \notin CyclePcs

\* C19: a cycle of the daemon thread that begins with no last-state file
\* reports, whatever its checks are
C19_DeletedFileForcesReport ==
    (thread = "daemon" /\ pc \in {"reporting", "skipping", "committing", "done"}
                       /\ pre_file = NoFile)
        => /\ pc # "skipping"
           /\ pc \in {"committing", "done"} => posts = 1

\* C20: after a cycle whose report was answered with 200 and whose write
\* completed, loading the file gives the snapshot reported, equal in every
\* field, and a snapshot with the same checks is unchanged against it; a
\* process launched on a written snapshot compares against what it loads
C20_CommitLoadRoundTrip ==
    /\ (pc = "done" /\ ResponseOk(response))
          => LET l == _load_last_state(last_state_file)
             IN  /\ ~l.raised
                 /\ l.value = payload
                 /\ \A now \in Timestamps :
                       has_state_changed([payload EXCEPT !.timestamp = now],
                                         l.value) = Ret(FALSE)
    /\ (pc = "checking" /\ thread = "main" /\ pre_file.kind = "json")
          => /\ last_state = json_load(pre_file.doc)
             /\ last_state.kind = "state"
             /\ json_dump(last_state) = pre_file

C20_Witness ==
    /\ pc = "done"
    /\ ResponseOk(response)
    /\ thread = "daemon"
    /\ payload.checks[1][2]
    /\ ~payload.checks[2][2]
    /\ _load_last_state(last_state_file).value = payload

\* C21: no running process has the empty string as its identifier
C21_IdentityNeverEmpty ==
    Running => (machine_id # None /\ machine_id # EmptyStr)

\* the checks of a snapshot: the four names, each with a boolean; all false
\* on a platform that is none of Windows, Darwin, Linux
ChecksWellFormed(snapshot) ==
    /\ Len(snapshot.checks) = 4
    /\ DictKeys(snapshot.checks) = {"disk_encryption", "os_updated",
                                    "antivirus_active", "sleep_settings_compliant"}
    /\ \A i \in 1..Len(snapshot.checks) : snapshot.checks[i][2] \in BOOLEAN
    /\ snapshot.os_type \notin {"Windows", "Darwin", "Linux"}
          => \A i \in 1..Len(snapshot.checks) : ~snapshot.checks[i][2]

\* C22: every snapshot check_all returns, on every platform and for every
\* outcome of the queries, has the four checks, each true or false, and all
\* false on a platform other than Windows, Darwin and Linux
C22_ChecksAlwaysFourBooleans ==
    /\ current_state # None => ChecksWellFormed(current_state)
    /\ pc = "checking"
          => \A r \in CheckAllResults[os_type] :
                ~r.raised => ChecksWellFormed(r.value)

C22_Witness ==
    /\ pc = "done"
    /\ current_state # None
    /\ current_state.os_type = "Other"
    /\ ChecksWellFormed(current_state)

\* C23: check_sleep_settings returns true exactly when the query gave a
\* number and that number, in seconds on Windows and Linux and in minutes
\* on macOS, is at most ten minutes; false otherwise
C23_SleepCompliantIffAtMostTenMinutes ==
    probe_result # None
        => probe_result =
             Ret(/\ probe_os \in {"Windows", "Darwin", "Linux"}
                 /\ ~probe_q.raises
                 /\ probe_q.parsed
                 /\ probe_os = "Linux" => probe_q.tool
                 /\ (IF probe_os = "Darwin" THEN 60 ELSE 1) * probe_q.n <= 10 * 60)

\* the boundary on macOS
C23_Witness ==
    /\ probe_result = Ret(TRUE)
    /\ probe_os = "Darwin"
    /\ probe_q.n = 10

\* C24: whenever the process runs and no cycle is in progress, last_state
\* is what loading the last-state file gives
C24_MemoryMatchesFile ==
    (Running /\ pc \notin CyclePcs)
        => last_state = _load_last_state(last_state_file).value

\* C25: in one process, no payload answered with 200 has the checks of the
\* payload answered with 200 before it
C25_NoRepeatedAck == ack_pairs # "repeated"

\* a second acknowledgement in the same process
C25_Witness ==
    /\ ack_pairs = "distinct"
    /\ pc = "done"
    /\ run_acked # None
    /\ last_state.checks = run_acked.checks

\* C26: the first cycle of a process launched on a written snapshot whose
\* checks equal those of its first snapshot skips without a POST; and every
\* snapshot carries the identifier of the snapshot in the file
C26_RestartDoesNotReport ==
    /\ (thread = "main" /\ pc \in {"reporting", "skipping", "committing", "done"}
                        /\ pre_file.kind = "json"
                        /\ SameChecks(current_state.checks,
                                      json_load(pre_file.doc).checks))
          => /\ pc \in {"skipping", "done"}
             /\ posts = 0
             /\ last_state_file = pre_file
    /\ (current_state # None /\ last_state_file.kind = "json")
          => current_state.machine_id = json_load(last_state_file.doc).machine_id

C26_Witness ==
    /\ thread = "main"
    /\ pc = "done"
    /\ posts = 0
    /\ pre_file.kind = "json"
    /\ current_state.timestamp # pre_last.timestamp
    /\ current_state.machine_id = pre_last.machine_id

====
